---- MODULE Spec2Model ----
(***************************************************************************)
(* Model of the S3 reconciliation of the ClamAV mirror scripts             *)
(* (clamav/cvd-mirror-to-s3-bucket/s3_sync.py): upload_to_s3 and           *)
(* download_from_s3 over a local database directory and a remote bucket,   *)
(* with the configuration, the connection test and the exit code of main.  *)
(*                                                                         *)
(* Spec is the runs of upload and download with a store that answers every *)
(* call; SpecFail adds calls that fail, SpecEnv other actors during a run, *)
(* SpecMain the start of main for every environment, configuration file    *)
(* and command line, and SpecKeys the key mapping over every database      *)
(* directory and prefix.  SpecPaths is the files a download writes for the *)
(* keys a bucket can hold, SpecUpdate update_databases.py with s3_sync.py  *)
(* as its child process, SpecConfig the setters of config_manager.py       *)
(* followed by a run of s3_sync.py, and SpecSched (SpecSchedFair with fair *)
(* scheduling of the threads) the DatabaseScheduler of schedule_updates.py.*)
(*                                                                         *)
(* Paths are sequences of path components; S3 keys and prefixes are        *)
(* sequences of tokens, a token being either the separator "/" or a        *)
(* maximal run of characters without a separator.  Timestamps are          *)
(* integers 1..MaxTime.  The local filesystem (fs) and the bucket (remote) *)
(* are functions from the existing paths / keys to their timestamps.       *)
(***************************************************************************)
EXTENDS Integers, Sequences, FiniteSets, TLC

VARIABLES
    fs,             \* local files: existing path -> st_mtime
    dirs,           \* existing local directories
    remote,         \* bucket: existing key -> LastModified
    prefix,         \* s3_config['prefix']
    db_dir,         \* get_database_directory()
    pc,             \* "main" | "exit" | "client" | "idle" | "upload" |
                    \* "download" | "done" | "crashed"; "keys" in SpecKeys,
                    \* "paths" in SpecPaths, "config" before a run in
                    \* SpecConfig, "wait" when s3_sync.py is not running
    args,           \* [action, force, dry_run] of the current run
    todo,           \* the items the loop of the current run has still to visit
    success_count,  \* success_count of the current run
    total_files,    \* total_files of the current run
    result,         \* return value of the current run: "none" | "True" |
                    \* "False", or "raised" when an exception left it
    environ,        \* os.environ: the variables that are set -> their values
    config_file,    \* ~/.cvdupdate/s3_config.json
    s3_config,      \* s3_config of main
    calls,          \* history: the remote calls of the process and their answers
    logged,         \* history: the warnings and errors the process has logged
    ud,             \* the process of update_databases.py around s3_sync, if any
    setters,        \* history: the file before the first setter of
                    \* config_manager, and key -> the value the last gave
    sched,          \* the DatabaseScheduler and its loop threads
    start,          \* history: fs, dirs and remote when the current run started
    log,            \* history: one record per item the current run has visited
    prev            \* history: summary of the run before the current one

vars == <<fs, dirs, remote, prefix, db_dir, pc, args, todo, success_count,
          total_files, result, environ, config_file, s3_config, calls, logged,
          ud, setters, sched,
          start, log, prev>>

\* What a process of s3_sync leaves alone: the process that launched it, the
\* commands of config_manager and the scheduler.
outer_vars == <<ud, setters, sched>>

\* What a run leaves alone: the environment, the configuration, and the above.
config_vars == <<environ, config_file, s3_config, outer_vars>>

\* Largest number of loop threads the scheduler creates.
MaxThreads == 2

\* Largest timestamp of the model.
MaxTime == 2

Times == 1..MaxTime

(***************************************************************************)
(* Paths and keys                                                          *)
(***************************************************************************)
Parent(p) == SubSeq(p, 1, Len(p) - 1)

Name(p) == p[Len(p)]

\* p and every directory above it (Path.mkdir(parents=True)).
Ancestors(p) == {SubSeq(p, 1, n) : n \in 1..Len(p)}

DropFirst(s, n) == SubSeq(s, n + 1, Len(s))

StartsWith(s, t) == Len(s) >= Len(t) /\ SubSeq(s, 1, Len(t)) = t

\* str.replace('//', '/'): non-overlapping occurrences, left to right.
RECURSIVE ReplaceDoubleSlash(_)
ReplaceDoubleSlash(s) ==
    IF Len(s) < 2 THEN s
    ELSE IF s[1] = "/" /\ s[2] = "/"
         THEN <<"/">> \o ReplaceDoubleSlash(DropFirst(s, 2))
         ELSE <<s[1]>> \o ReplaceDoubleSlash(Tail(s))

\* str.lstrip('/')
RECURSIVE LStripSlash(_)
LStripSlash(s) ==
    IF s # <<>> /\ Head(s) = "/" THEN LStripSlash(Tail(s)) ELSE s

IsName(t) == t # "/"

\* pathlib: base / rel, rel a path given as text.  A rel that starts with
\* '/' is absolute and replaces base: the result starts with the component
\* "/", which no path relative to the home directory has.
PathJoin(base, rel) ==
    IF rel # <<>> /\ rel[1] = "/" THEN <<"/">> \o SelectSeq(rel, IsName)
    ELSE base \o SelectSeq(rel, IsName)

MetadataPrefix == <<"metadata", "/">>

\* The default prefix of load_s3_config.
DefaultPrefix == <<"clamav", "/", "databases", "/">>

\* The default database directory, relative to the home directory.
DefaultDbDir == <<".cvdupdate", "database">>

Prefixes == {DefaultPrefix}

DbDirs == {DefaultDbDir}

\* The glob patterns of get_local_files, by extension, in the code's order.
patterns == <<"cvd", "cld", "cdiff", "sign", "dat", "inc", "txt", "info", "cfg">>

\* File names of the model and their extensions.
DbNames == {"daily.cvd"}

Extension(n) == CASE n = "daily.cvd" -> "cvd"
                  [] OTHER -> "json"

state_files(db) == <<Parent(db) \o <<"state.json">>, Parent(db) \o <<"config.json">>>>


(***************************************************************************)
(* The universe of the model: the local files and the keys that can exist. *)
(***************************************************************************)
LocalFiles(db) == {db \o <<n>> : n \in DbNames} \cup {Parent(db) \o <<"state.json">>}

\* The keys of the bucket in the order list_objects_v2 returns them (UTF-8
\* binary order: '/' sorts before every letter).
KeyOrder(pfx) ==
    << pfx \o <<"/", "daily.cvd">>,
       pfx \o <<"daily.cvd">>,
       pfx \o <<"metadata", "/", "state.json">> >>

Range(s) == {s[i] : i \in DOMAIN s}

PartialFunctions(S, T) == UNION {[D -> T] : D \in SUBSET S}

\* f with x set to v, x added to the domain when it is new.
Put(f, x, v) == [y \in DOMAIN f \cup {x} |-> IF y = x THEN v ELSE f[y]]

(***************************************************************************)
(* get_local_files                                                         *)
(***************************************************************************)
RECURSIVE SetToSeq(_)
SetToSeq(S) ==
    IF S = {} THEN <<>>
    ELSE LET x == CHOOSE y \in S : TRUE IN <<x>> \o SetToSeq(S \ {x})

\* db_dir.glob('*.<ext>'): the files directly inside db with that extension.
glob(files, db, ext) ==
    SetToSeq({p \in DOMAIN files : Parent(p) = db /\ Extension(Name(p)) = ext})

RECURSIVE GlobAll(_, _, _)
GlobAll(files, db, i) ==
    IF i > Len(patterns) THEN <<>>
    ELSE glob(files, db, patterns[i]) \o GlobAll(files, db, i + 1)

ExistingOf(files, ps) == SelectSeq(ps, LAMBDA p : p \in DOMAIN files)

\* Faulty variant of get_local_files: the test that db exists left out.
get_local_files_unchecked(files, ds, db) ==
    GlobAll(files, db, 1) \o ExistingOf(files, state_files(db))

get_local_files(files, ds, db) ==
    IF db \notin ds THEN <<>>
    ELSE GlobAll(files, db, 1) \o ExistingOf(files, state_files(db))

(***************************************************************************)
(* Key mapping                                                             *)
(***************************************************************************)
\* upload_to_s3: the key of a local file.
s3_key_of(pfx, local_file) ==
    LET relative_path ==
            IF Name(Parent(local_file)) = ".cvdupdate"
            THEN MetadataPrefix \o <<Name(local_file)>>
            ELSE <<Name(local_file)>>
    IN  ReplaceDoubleSlash(pfx \o relative_path)

\* download_from_s3: the local file of a key of the listing.
local_file_of(pfx, db, s3_key) ==
    LET relative_path == LStripSlash(DropFirst(s3_key, Len(pfx)))
    IN  IF StartsWith(relative_path, MetadataPrefix)
        THEN PathJoin(Parent(db), DropFirst(relative_path, Len(MetadataPrefix)))
        ELSE PathJoin(db, relative_path)

\* list_objects_v2(Bucket, Prefix)['Contents']: the objects under the prefix,
\* in key order, each with its LastModified.
list_objects_v2(bucket, pfx) ==
    LET keys == SelectSeq(KeyOrder(pfx),
                          LAMBDA k : k \in DOMAIN bucket /\ StartsWith(k, pfx))
    IN  [i \in DOMAIN keys |-> [Key |-> keys[i], LastModified |-> bucket[keys[i]]]]

(***************************************************************************)
(* The transfer decisions                                                  *)
(***************************************************************************)
\* Faulty variants of should_upload: comparison reversed; a missing object
\* skipped; ties uploaded; force ignored.
should_upload_reversed(force, found, s3_modified, local_modified) ==
    IF force THEN TRUE
    ELSE IF found THEN local_modified < s3_modified ELSE TRUE

should_upload_skip404(force, found, s3_modified, local_modified) ==
    IF force THEN TRUE
    ELSE IF found THEN local_modified > s3_modified ELSE FALSE

should_upload_ties(force, found, s3_modified, local_modified) ==
    IF force THEN TRUE
    ELSE IF found THEN local_modified >= s3_modified ELSE TRUE

should_upload_noforce(force, found, s3_modified, local_modified) ==
    IF found THEN local_modified > s3_modified ELSE TRUE

\* upload_to_s3: should_upload for one file.  found is FALSE when head_object
\* answers 404; s3_modified is read only when found.
should_upload(force, found, s3_modified, local_modified) ==
    IF force THEN TRUE
    ELSE IF found THEN local_modified > s3_modified ELSE TRUE

\* Faulty variants of should_download: comparison reversed; ties downloaded;
\* force ignored.
should_download_reversed(force, exists, s3_modified, local_modified) ==
    IF ~force /\ exists THEN s3_modified < local_modified ELSE force

should_download_ties(force, exists, s3_modified, local_modified) ==
    IF ~force /\ exists THEN s3_modified >= local_modified ELSE force

should_download_noforce(force, exists, s3_modified, local_modified) ==
    IF exists THEN s3_modified > local_modified ELSE force

\* download_from_s3: should_download for one object.  local_modified is read
\* only when the local file exists.
should_download(force, exists, s3_modified, local_modified) ==
    IF ~force /\ exists THEN s3_modified > local_modified ELSE force

(***************************************************************************)
(* Configuration: load_s3_config and the checks of main                    *)
(***************************************************************************)
\* Python's None, as a value among the strings.
None == "None"

\* The truth value of a string or None.
Truthy(v) == v # None /\ v # ""

\* The function with the empty domain: no variable set, no key present.
Unset == [n \in {} |-> None]

\* os.environ.get(name)
environ_get(env, name) == IF name \in DOMAIN env THEN env[name] ELSE None

\* What load_s3_config returns when it finds no file it can parse.
NoConfig ==
    [bucket |-> None, region |-> "us-east-1", prefix |-> DefaultPrefix,
     sync_enabled |-> FALSE]

\* load_s3_config.  file.state is "absent", "invalid" (the file is not JSON),
\* "unreadable" (open fails with PermissionError) or "ok"; file.json is the
\* object in the file, which has the keys the setters of config_manager have
\* written so far.
load_s3_config(env, file) ==
    LET env_bucket == environ_get(env, "S3_BUCKET_NAME")
        env_region == environ_get(env, "S3_REGION")
    IN  IF Truthy(env_bucket)
        THEN [bucket |-> env_bucket,
              region |-> IF Truthy(env_region) THEN env_region ELSE "us-east-1",
              prefix |-> DefaultPrefix,
              sync_enabled |-> TRUE]
        ELSE IF file.state = "absent" THEN NoConfig
        ELSE IF file.state = "invalid" THEN NoConfig
        ELSE file.json

\* load_s3_config lets an exception other than JSONDecodeError and
\* FileNotFoundError through.
load_s3_config_raises(env, file) ==
    /\ ~Truthy(environ_get(env, "S3_BUCKET_NAME"))
    /\ file.state = "unreadable"

\* Faulty variant of main_checks: the sync_enabled check left out.
main_checks_nosync(cfg, client_created) ==
    IF "bucket" \notin DOMAIN cfg THEN "raised"
    ELSE IF ~Truthy(cfg["bucket"]) THEN "exit"
    ELSE IF "region" \notin DOMAIN cfg \/ ~client_created THEN "exit"
    ELSE "client"

\* main between load_s3_config and the creation of the client: "exit" is
\* sys.exit(1), "raised" a KeyError nothing catches, "client" the client is
\* created and main goes on.
main_checks(cfg, client_created) ==
    IF "bucket" \notin DOMAIN cfg THEN "raised"
    ELSE IF ~Truthy(cfg["bucket"]) THEN "exit"
    ELSE IF "sync_enabled" \notin DOMAIN cfg THEN "raised"
    ELSE IF ~cfg["sync_enabled"] THEN "exit"
    ELSE IF "region" \notin DOMAIN cfg \/ ~client_created THEN "exit"
    ELSE "client"

\* A remote call and the answer of the store.
Call(api, response) == [api |-> api, response |-> response]

(***************************************************************************)
(* State                                                                   *)
(***************************************************************************)
\* No process of update_databases.py.
NoUpdate ==
    [pc |-> "none", s3_sync |-> FALSE, s3_bucket |-> None, s3_region |-> None,
     dry_run |-> FALSE, returncode |-> -1, launched |-> FALSE,
     returned |-> "none"]

\* No command of config_manager.py has run.
NoSetters == [first |-> [state |-> "none", json |-> Unset], last |-> Unset]

\* DatabaseScheduler.__init__: not running, no thread.  threads gives every
\* thread the scheduler can create its position in run_scheduler, "none"
\* before it is created; outcome is the history of how the last update of
\* each thread ended, and called of the last call of start or stop.
NewScheduler ==
    [running |-> FALSE, thread |-> 0,
     threads |-> [i \in 1..MaxThreads |-> "none"],
     outcome |-> [i \in 1..MaxThreads |-> "none"],
     called |-> "none"]

\* s3_sync.py alone: no update_databases.py, no setter run, a new scheduler.
Alone ==
    /\ ud = NoUpdate
    /\ setters = NoSetters
    /\ sched = NewScheduler

NoArgs == [action |-> "none", force |-> FALSE, dry_run |-> FALSE]

Snapshot == [fs |-> fs, dirs |-> dirs, remote |-> remote]

NoRun == [action |-> "none"]

\* The summary of the current run, kept when the command is repeated: its
\* arguments, whether it left the local files and the bucket as it found them,
\* the keys it transferred (reported, in dry-run), and whether every transfer
\* gave its destination a timestamp not smaller than its source's.
Summary ==
    [action |-> args.action, force |-> args.force, dry_run |-> args.dry_run,
     unchanged |-> (fs = start.fs /\ remote = start.remote),
     keys |-> {r.key : r \in {x \in log : x.did}},
     consistent |->
        \A r \in {x \in log : x.did} :
            r.stamp >= (IF args.action = "upload" THEN r.local_modified
                        ELSE r.s3_modified)]

Init ==
    /\ prefix \in Prefixes
    /\ db_dir \in DbDirs
    /\ dirs \in {Ancestors(Parent(db_dir)), Ancestors(db_dir)}
    /\ fs \in PartialFunctions({p \in LocalFiles(db_dir) : Parent(p) \in dirs}, Times)
    /\ remote \in PartialFunctions(Range(KeyOrder(prefix)), Times)
    /\ pc = "idle"
    /\ args = NoArgs
    /\ todo = <<>>
    /\ success_count = 0
    /\ total_files = 0
    /\ result = "none"
    /\ environ = Unset
    /\ config_file = [state |-> "ok",
                      json |-> [bucket |-> "my-bucket", region |-> "eu-west-1",
                                prefix |-> prefix, sync_enabled |-> TRUE]]
    /\ s3_config = load_s3_config(environ, config_file)
    /\ Alone
    /\ calls = {}
    /\ logged = {}
    /\ start = Snapshot
    /\ log = {}
    /\ prev = NoRun

\* A behaviour is a run of s3_sync from an arbitrary state of the local files
\* and of the bucket, followed by repetitions of the same command, each with
\* or without --dry-run.
BeginRun(action, force, dry_run) ==
    /\ \/ /\ pc = "idle"
          /\ \/ args = NoArgs
             \/ args = [action |-> action, force |-> force, dry_run |-> dry_run]
       \/ pc = "done" /\ action = args.action /\ force = args.force
    /\ prev' = IF pc = "done" THEN Summary ELSE prev
    /\ args' = [action |-> action, force |-> force, dry_run |-> dry_run]
    /\ start' = Snapshot
    /\ log' = {}
    /\ success_count' = 0
    /\ UNCHANGED <<prefix, db_dir, config_vars>>

Bool(b) == IF b THEN "True" ELSE "False"

\* A line logger.error or logger.warning has written about a call.
Logged(level, api, key) == [level |-> level, api |-> api, key |-> key]

(***************************************************************************)
(* upload_to_s3                                                            *)
(***************************************************************************)
\* main's upload branch up to the loop of upload_to_s3: get_local_files, and
\* the early return when there is no local file.
StartUpload(force, dry_run) ==
    LET local_files == get_local_files(fs, dirs, db_dir) IN
    /\ BeginRun("upload", force, dry_run)
    /\ IF local_files = <<>>
       THEN /\ pc' = "done"
            /\ result' = "True"
            /\ todo' = <<>>
            /\ total_files' = 0
       ELSE /\ pc' = "upload"
            /\ result' = "none"
            /\ todo' = local_files
            /\ total_files' = Len(local_files)
    /\ calls' = {}
    /\ logged' =
          (IF db_dir \notin dirs
           THEN {Logged("warning", "get_local_files", db_dir)} ELSE {})
          \cup (IF local_files = <<>>
                THEN {Logged("warning", "upload_to_s3", <<>>)} ELSE {})
    /\ UNCHANGED <<fs, dirs, remote>>

\* One iteration of the loop of upload_to_s3.
UploadStep ==
    /\ pc = "upload"
    /\ todo # <<>>
    /\ LET local_file == Head(todo)
           s3_key == s3_key_of(prefix, local_file)
           found == s3_key \in DOMAIN remote
           s3_modified == IF found THEN remote[s3_key] ELSE 0
           local_modified == fs[local_file]
           upload == should_upload(args.force, found, s3_modified, local_modified)
           entry == [key |-> s3_key, file |-> local_file,
                     local |-> TRUE, local_modified |-> local_modified,
                     found |-> found, s3_modified |-> s3_modified]
       IN  /\ IF upload
              THEN /\ success_count' = success_count + 1
                   /\ IF args.dry_run
                      THEN /\ remote' = remote
                           /\ log' = log \cup {entry @@ [did |-> TRUE, stamp |-> 0]}
                      ELSE \E t \in Times :
                           /\ remote' = Put(remote, s3_key, t)
                           /\ log' = log \cup {entry @@ [did |-> TRUE, stamp |-> t]}
              ELSE /\ success_count' = success_count
                   /\ remote' = remote
                   /\ log' = log \cup {entry @@ [did |-> FALSE, stamp |-> 0]}
           /\ calls' = calls
                \cup (IF args.force THEN {}
                      ELSE {Call("head_object", IF found THEN "ok" ELSE "404")})
                \cup (IF upload /\ ~args.dry_run
                      THEN {Call("upload_file", "ok")} ELSE {})
    /\ todo' = Tail(todo)
    /\ UNCHANGED <<fs, dirs, prefix, db_dir, pc, args, total_files, result,
                   config_vars, logged, start, prev>>

\* The end of upload_to_s3: the return value.
UploadReturn ==
    /\ pc = "upload"
    /\ todo = <<>>
    /\ pc' = "done"
    /\ result' = Bool(success_count = total_files)
    /\ UNCHANGED <<fs, dirs, remote, prefix, db_dir, args, todo, success_count,
                   total_files, config_vars, calls, logged, start, log, prev>>

(***************************************************************************)
(* download_from_s3                                                        *)
(***************************************************************************)
\* download_from_s3 up to its loop: the listing, the early return when it is
\* empty, and the creation of the database directory.
StartDownload(force, dry_run) ==
    LET contents == list_objects_v2(remote, prefix) IN
    /\ BeginRun("download", force, dry_run)
    /\ IF contents = <<>>
       THEN /\ pc' = "done"
            /\ result' = "True"
            /\ todo' = <<>>
            /\ total_files' = 0
            /\ dirs' = dirs
       ELSE /\ pc' = "download"
            /\ result' = "none"
            /\ todo' = contents
            /\ total_files' = Len(contents)
            /\ dirs' = dirs \cup Ancestors(db_dir)
    /\ calls' = {Call("list_objects_v2", "ok")}
    /\ logged' = {}
    /\ UNCHANGED <<fs, remote>>

\* One iteration of the loop of download_from_s3.
DownloadStep ==
    /\ pc = "download"
    /\ todo # <<>>
    /\ LET obj == Head(todo)
           s3_key == obj.Key
           local_file == local_file_of(prefix, db_dir, s3_key)
           exists == local_file \in DOMAIN fs
           s3_modified == obj.LastModified
           local_modified == IF exists THEN fs[local_file] ELSE 0
           download == should_download(args.force, exists, s3_modified, local_modified)
           entry == [key |-> s3_key, file |-> local_file,
                     local |-> exists, local_modified |-> local_modified,
                     found |-> TRUE, s3_modified |-> s3_modified]
       IN  /\ IF download
              THEN /\ success_count' = success_count + 1
                   /\ IF args.dry_run
                      THEN /\ fs' = fs
                           /\ dirs' = dirs
                           /\ log' = log \cup {entry @@ [did |-> TRUE, stamp |-> 0]}
                      ELSE \E t \in Times :
                           /\ fs' = Put(fs, local_file, t)
                           /\ dirs' = dirs \cup Ancestors(Parent(local_file))
                           /\ log' = log \cup {entry @@ [did |-> TRUE, stamp |-> t]}
              ELSE /\ success_count' = success_count
                   /\ fs' = fs
                   /\ dirs' = dirs
                   /\ log' = log \cup {entry @@ [did |-> FALSE, stamp |-> 0]}
           /\ calls' = calls
                \cup (IF download /\ ~args.dry_run
                      THEN {Call("download_file", "ok")} ELSE {})
    /\ todo' = Tail(todo)
    /\ UNCHANGED <<remote, prefix, db_dir, pc, args, total_files, result,
                   config_vars, logged, start, prev>>

\* The end of download_from_s3: the return value.
DownloadReturn ==
    /\ pc = "download"
    /\ todo = <<>>
    /\ pc' = "done"
    /\ result' = "True"
    /\ UNCHANGED <<fs, dirs, remote, prefix, db_dir, args, todo, success_count,
                   total_files, config_vars, calls, logged, start, log, prev>>

Next ==
    \/ \E force \in BOOLEAN, dry_run \in BOOLEAN : StartUpload(force, dry_run)
    \/ UploadStep
    \/ UploadReturn
    \/ \E force \in BOOLEAN, dry_run \in BOOLEAN : StartDownload(force, dry_run)
    \/ DownloadStep
    \/ DownloadReturn

Spec == Init /\ [][Next]_vars

(***************************************************************************)
(* Failures of the remote calls                                            *)
(***************************************************************************)
\* The exception a failing call raises.  The methods of the client raise
\* ClientError when the store answers with an error; upload_file turns that
\* ClientError into boto3's S3UploadFailedError, which is not a ClientError.
raised_by(api) ==
    IF api = "upload_file" THEN "S3UploadFailedError" ELSE "ClientError"

\* except ClientError
except_ClientError(exception) == exception = "ClientError"

\* An exception nothing catches: the process ends with a traceback.
Crash ==
    /\ pc' = "crashed"
    /\ result' = "raised"

\* An iteration of the loop of upload_to_s3 in which head_object answers
\* with an error other than 404: the inner handler raises it again and the
\* handler of the loop body logs it and goes to the next file.
HeadObjectFails ==
    /\ pc = "upload"
    /\ todo # <<>>
    /\ ~args.force
    /\ calls' = calls \cup {Call("head_object", "403")}
    /\ IF except_ClientError(raised_by("head_object"))
       THEN /\ logged' = logged
                    \cup {Logged("error", "head_object", s3_key_of(prefix, Head(todo)))}
            /\ todo' = Tail(todo)
            /\ UNCHANGED <<pc, result>>
       ELSE /\ Crash
            /\ UNCHANGED <<logged, todo>>
    /\ UNCHANGED <<fs, dirs, remote, prefix, db_dir, args, success_count,
                   total_files, config_vars, start, log, prev>>

\* An iteration of the loop of upload_to_s3 in which the file is to be
\* uploaded and upload_file fails.
UploadFileFails ==
    /\ pc = "upload"
    /\ todo # <<>>
    /\ ~args.dry_run
    /\ LET local_file == Head(todo)
           s3_key == s3_key_of(prefix, local_file)
           found == s3_key \in DOMAIN remote
           s3_modified == IF found THEN remote[s3_key] ELSE 0
       IN  /\ should_upload(args.force, found, s3_modified, fs[local_file])
           /\ calls' = calls
                \cup (IF args.force THEN {}
                      ELSE {Call("head_object", IF found THEN "ok" ELSE "404")})
                \cup {Call("upload_file", "AccessDenied")}
           /\ IF except_ClientError(raised_by("upload_file"))
              THEN /\ logged' = logged \cup {Logged("error", "upload_file", s3_key)}
                   /\ todo' = Tail(todo)
                   /\ UNCHANGED <<pc, result>>
              ELSE /\ Crash
                   /\ UNCHANGED <<logged, todo>>
    /\ UNCHANGED <<fs, dirs, remote, prefix, db_dir, args, success_count,
                   total_files, config_vars, start, log, prev>>

\* download_from_s3 when list_objects_v2 fails: the handler around the whole
\* function logs the error and returns False.
ListObjectsFails(force, dry_run) ==
    /\ BeginRun("download", force, dry_run)
    /\ calls' = {Call("list_objects_v2", "AccessDenied")}
    /\ todo' = <<>>
    /\ total_files' = 0
    /\ IF except_ClientError(raised_by("list_objects_v2"))
       THEN /\ logged' = {Logged("error", "list_objects_v2", prefix)}
            /\ pc' = "done"
            /\ result' = "False"
       ELSE /\ Crash
            /\ logged' = {}
    /\ UNCHANGED <<fs, dirs, remote>>

\* An iteration of the loop of download_from_s3 in which the object is to be
\* downloaded and download_file fails, after the directory of the file was
\* created: the handler around the whole function logs the error and returns
\* False, and the objects after this one are not visited.
DownloadFileFails ==
    /\ pc = "download"
    /\ todo # <<>>
    /\ ~args.dry_run
    /\ LET obj == Head(todo)
           local_file == local_file_of(prefix, db_dir, obj.Key)
           exists == local_file \in DOMAIN fs
           local_modified == IF exists THEN fs[local_file] ELSE 0
       IN  /\ should_download(args.force, exists, obj.LastModified, local_modified)
           /\ dirs' = dirs \cup Ancestors(Parent(local_file))
           /\ calls' = calls \cup {Call("download_file", "AccessDenied")}
           /\ IF except_ClientError(raised_by("download_file"))
              THEN /\ logged' = logged \cup {Logged("error", "download_file", obj.Key)}
                   /\ pc' = "done"
                   /\ result' = "False"
              ELSE /\ Crash
                   /\ logged' = logged
    /\ UNCHANGED <<fs, remote, prefix, db_dir, args, todo, success_count,
                   total_files, config_vars, start, log, prev>>

\* The runs of Spec, with remote calls that can fail.
NextFail ==
    \/ Next
    \/ HeadObjectFails
    \/ UploadFileFails
    \/ \E force \in BOOLEAN, dry_run \in BOOLEAN : ListObjectsFails(force, dry_run)
    \/ DownloadFileFails

SpecFail == Init /\ [][NextFail]_vars

(***************************************************************************)
(* main: configuration, connection test, choice of the action              *)
(***************************************************************************)
\* The environments: each of the two variables unset, empty or set.
Environs ==
    {b @@ r : b \in {Unset} \cup {"S3_BUCKET_NAME" :> v : v \in {"", "env-bucket"}},
              r \in {Unset} \cup {"S3_REGION" :> v : v \in {"", "ap-south-1"}}}

\* The objects s3_config.json can hold: each key missing or present.
JsonObjects ==
    {b @@ r @@ p @@ e :
        b \in {Unset} \cup {"bucket" :> v : v \in {"", "my-bucket"}},
        r \in {Unset} \cup {"region" :> v : v \in {"eu-west-1"}},
        p \in {Unset} \cup {"prefix" :> v : v \in Prefixes},
        e \in {Unset} \cup {"sync_enabled" :> v : v \in BOOLEAN}}

ConfigFiles ==
    {[state |-> st, json |-> Unset] : st \in {"absent", "invalid", "unreadable"}}
        \cup {[state |-> "ok", json |-> j] : j \in JsonObjects}

\* The command lines: at most one of --upload, --download and
\* --test-connection ("none": no action flag), --force, --dry-run.
CommandLines ==
    [action : {"none", "upload", "download", "test"},
     force : BOOLEAN, dry_run : BOOLEAN]

\* A process of s3_sync.py at the start of main, for every environment,
\* configuration file and command line, over local files and a bucket that
\* hold every file and every key of the model.
InitMain ==
    /\ prefix \in Prefixes
    /\ db_dir \in DbDirs
    /\ dirs = Ancestors(db_dir)
    /\ fs \in [LocalFiles(db_dir) -> {MaxTime}]
    /\ remote \in [Range(KeyOrder(prefix)) -> {MaxTime}]
    /\ pc = "main"
    /\ args \in CommandLines
    /\ todo = <<>>
    /\ success_count = 0
    /\ total_files = 0
    /\ result = "none"
    /\ environ \in Environs
    /\ config_file \in ConfigFiles
    /\ s3_config = Unset
    /\ Alone
    /\ calls = {}
    /\ logged = {}
    /\ start = Snapshot
    /\ log = {}
    /\ prev = NoRun

\* main from load_s3_config to the creation of the client.
MainConfigure(client_created) ==
    /\ pc = "main"
    /\ IF load_s3_config_raises(environ, config_file)
       THEN /\ Crash
            /\ UNCHANGED <<s3_config, logged>>
       ELSE LET cfg == load_s3_config(environ, config_file)
                outcome == main_checks(cfg, client_created)
            IN  /\ s3_config' = cfg
                /\ IF outcome = "raised"
                   THEN /\ Crash
                        /\ logged' = logged
                   ELSE /\ pc' = outcome
                        /\ result' = result
                        /\ logged' = IF outcome = "exit"
                                     THEN {Logged("error", "main", <<>>)}
                                     ELSE logged
    /\ UNCHANGED <<fs, dirs, remote, prefix, db_dir, args, todo, success_count,
                   total_files, environ, config_file, outer_vars, calls, start,
                   log, prev>>

\* The answers of the store to the two calls of the connection test.
HeadBucketResponses == {"ok", "403", "404"}

ListObjectsResponses == {"ok", "AccessDenied", "InternalError"}

\* Faulty variant of test_s3_connection: AccessDenied of list_objects_v2 is
\* a failure like any other.
test_s3_connection_strict(head_bucket, list_objects) ==
    head_bucket = "ok" /\ list_objects = "ok"

\* The return value of test_s3_connection, from the answers to head_bucket
\* and to list_objects_v2 (which is called only when head_bucket succeeded).
test_s3_connection(head_bucket, list_objects) ==
    IF head_bucket # "ok" THEN FALSE
    ELSE IF list_objects = "ok" THEN TRUE
    ELSE IF list_objects = "AccessDenied" THEN TRUE
    ELSE FALSE

\* Faulty variant of selected_action: without a flag, download.
selected_action_download(flag) ==
    IF flag = "test" THEN "test"
    ELSE IF flag # "upload" THEN "download"
    ELSE "upload"

\* The branch main takes for the action flag of the command line: the
\* connection test with --test-connection, else upload unless --download.
selected_action(flag) ==
    IF flag = "test" THEN "test"
    ELSE IF flag # "download" THEN "upload"
    ELSE "download"

\* main's --test-connection branch.
TestConnection(head_bucket, list_objects) ==
    /\ pc = "client"
    /\ selected_action(args.action) = "test"
    /\ calls' = {Call("head_bucket", head_bucket)}
            \cup (IF head_bucket = "ok"
                  THEN {Call("list_objects_v2", list_objects)} ELSE {})
    /\ logged' =
            IF head_bucket # "ok" THEN {Logged("error", "head_bucket", <<>>)}
            ELSE IF list_objects = "ok" THEN {}
            ELSE IF list_objects = "AccessDenied"
                 THEN {Logged("warning", "list_objects_v2", <<>>)}
                 ELSE {Logged("error", "list_objects_v2", <<>>)}
    /\ result' = Bool(test_s3_connection(head_bucket, list_objects))
    /\ pc' = "done"
    /\ UNCHANGED <<fs, dirs, remote, prefix, db_dir, args, todo, success_count,
                   total_files, config_vars, start, log, prev>>

\* main after the client is created and without --test-connection: the
\* action is download with --download and upload otherwise, and the prefix
\* is read from the configuration.
MainDispatch ==
    /\ pc = "client"
    /\ selected_action(args.action) # "test"
    /\ IF "prefix" \in DOMAIN s3_config
       THEN /\ pc' = "idle"
            /\ result' = result
            /\ prefix' = s3_config["prefix"]
            /\ args' = [args EXCEPT !.action = selected_action(@)]
       ELSE /\ Crash
            /\ UNCHANGED <<prefix, args>>
    /\ UNCHANGED <<fs, dirs, remote, db_dir, todo, success_count, total_files,
                   config_vars, calls, logged, start, log, prev>>

NextMain ==
    \/ \E client_created \in BOOLEAN : MainConfigure(client_created)
    \/ \E h \in HeadBucketResponses, l \in ListObjectsResponses : TestConnection(h, l)
    \/ MainDispatch
    \/ Next

SpecMain == InitMain /\ [][NextMain]_vars

(***************************************************************************)
(* The key mapping over the database directories and the prefixes          *)
(***************************************************************************)
\* The database directories: the default one, and two that config.json can
\* name with database_directory, the second having the name ".cvdupdate".
AllDbDirs == {DefaultDbDir, <<"srv", "clamav">>, <<"srv", ".cvdupdate">>}

\* The prefixes: the default one, another that config_manager's
\* set-s3-prefix has normalised, and the empty one.
AllPrefixes == {DefaultPrefix, <<"mirror", "/">>, <<>>}

\* Every database directory and prefix, over every set of existing files
\* among the database file and the two auxiliary files.
InitKeys ==
    /\ prefix \in AllPrefixes
    /\ db_dir \in AllDbDirs
    /\ dirs = Ancestors(db_dir)
    /\ fs \in PartialFunctions(LocalFiles(db_dir) \cup Range(state_files(db_dir)),
                                {MaxTime})
    /\ remote = Unset
    /\ pc = "keys"
    /\ args = NoArgs
    /\ todo = <<>>
    /\ success_count = 0
    /\ total_files = 0
    /\ result = "none"
    /\ environ = Unset
    /\ config_file = [state |-> "absent", json |-> Unset]
    /\ s3_config = Unset
    /\ Alone
    /\ calls = {}
    /\ logged = {}
    /\ start = Snapshot
    /\ log = {}
    /\ prev = NoRun

\* The key upload_to_s3 gives a candidate file, and the local file
\* download_from_s3 gives that key.
MapKey ==
    /\ pc = "keys"
    /\ \E f \in Range(get_local_files(fs, dirs, db_dir)) :
          LET s3_key == s3_key_of(prefix, f)
          IN  log' = log \cup {[file |-> f, key |-> s3_key,
                                back |-> local_file_of(prefix, db_dir, s3_key)]}
    /\ UNCHANGED <<fs, dirs, remote, prefix, db_dir, pc, args, todo,
                   success_count, total_files, result, config_vars, calls,
                   logged, start, prev>>

SpecKeys == InitKeys /\ [][MapKey]_vars

(***************************************************************************)
(* Other actors during a run                                               *)
(***************************************************************************)
\* The local file and the key the next iteration of the run is about.
NextFile ==
    IF pc = "upload" THEN Head(todo)
    ELSE local_file_of(prefix, db_dir, Head(todo).Key)

NextKey ==
    IF pc = "upload" THEN s3_key_of(prefix, Head(todo)) ELSE Head(todo).Key

\* Before an iteration of a run another process (cvdupdate, an editor)
\* writes again the local file the iteration is about: local_file.stat()
\* then reads the new mtime.
TouchLocal ==
    /\ pc \in {"upload", "download"}
    /\ todo # <<>>
    /\ NextFile \in DOMAIN fs
    /\ \E t \in Times :
          /\ t # fs[NextFile]
          /\ fs' = Put(fs, NextFile, t)
    /\ UNCHANGED <<dirs, remote, prefix, db_dir, pc, args, todo, success_count,
                   total_files, result, config_vars, calls, logged, start, log,
                   prev>>

\* Before an iteration of a run another client of the bucket writes again
\* the object the iteration is about: head_object then answers with the new
\* LastModified.
TouchRemote ==
    /\ pc \in {"upload", "download"}
    /\ todo # <<>>
    /\ NextKey \in DOMAIN remote
    /\ \E t \in Times :
          /\ t # remote[NextKey]
          /\ remote' = Put(remote, NextKey, t)
    /\ UNCHANGED <<fs, dirs, prefix, db_dir, pc, args, todo, success_count,
                   total_files, result, config_vars, calls, logged, start, log,
                   prev>>

\* One run of s3_sync beside other actors.
NextEnv ==
    \/ \E force \in BOOLEAN, dry_run \in BOOLEAN :
          pc = "idle" /\ StartUpload(force, dry_run)
    \/ UploadStep
    \/ UploadReturn
    \/ \E force \in BOOLEAN, dry_run \in BOOLEAN :
          pc = "idle" /\ StartDownload(force, dry_run)
    \/ DownloadStep
    \/ DownloadReturn
    \/ TouchLocal
    \/ TouchRemote

SpecEnv == Init /\ [][NextEnv]_vars

\* sys.exit(0 if success else 1) at the end of main, sys.exit(1) of the
\* checks of main, and the exit code 1 of a process ended by an exception.
exit_code == IF pc = "exit" THEN 1 ELSE IF result = "True" THEN 0 ELSE 1

(***************************************************************************)
(* The files download_from_s3 writes, over the keys a bucket can hold      *)
(***************************************************************************)
\* The file the system opens for a path: every ".." component takes the
\* path one directory up, from the root to the root, and from the home
\* directory to above it (the ".." is kept).
RECURSIVE resolve_from(_, _)
resolve_from(done, rest) ==
    IF rest = <<>> THEN done
    ELSE IF Head(rest) # ".." THEN resolve_from(done \o <<Head(rest)>>, Tail(rest))
    ELSE IF done = <<"/">> THEN resolve_from(done, Tail(rest))
    ELSE IF done = <<>> \/ done[Len(done)] = ".."
         THEN resolve_from(done \o <<"..">>, Tail(rest))
    ELSE resolve_from(Parent(done), Tail(rest))

resolve(path) == resolve_from(<<>>, path)

\* What follows the prefix in the keys of the bucket: a database file, one
\* in a nested directory, a metadata file, one with a second 'metadata/',
\* one with '..' segments, and a metadata file whose name starts with '/'.
Remainders ==
    { <<"daily.cvd">>,
      <<"sub", "/", "daily.cvd">>,
      <<"metadata", "/", "state.json">>,
      <<"metadata", "/", "metadata", "/", "state.json">>,
      <<"..", "/", "..", "/", "daily.cvd">>,
      <<"metadata", "/", "/", "etc", "/", "freshclam.conf">> }

\* Every database directory and prefix, and a bucket that holds a key for
\* every remainder.
InitPaths ==
    /\ prefix \in AllPrefixes
    /\ db_dir \in AllDbDirs
    /\ dirs = Ancestors(db_dir)
    /\ fs = Unset
    /\ remote = [k \in {prefix \o r : r \in Remainders} |-> MaxTime]
    /\ pc = "paths"
    /\ args = NoArgs
    /\ todo = <<>>
    /\ success_count = 0
    /\ total_files = 0
    /\ result = "none"
    /\ environ = Unset
    /\ config_file = [state |-> "absent", json |-> Unset]
    /\ s3_config = Unset
    /\ Alone
    /\ calls = {}
    /\ logged = {}
    /\ start = Snapshot
    /\ log = {}
    /\ prev = NoRun

\* The local file download_from_s3 gives a key of the listing, and the file
\* download_file then writes.
WritePath ==
    /\ pc = "paths"
    /\ \E s3_key \in DOMAIN remote :
          LET local_file == local_file_of(prefix, db_dir, s3_key)
          IN  log' = log \cup {[key |-> s3_key, file |-> local_file,
                                 written |-> resolve(local_file)]}
    /\ UNCHANGED <<fs, dirs, remote, prefix, db_dir, pc, args, todo, success_count,
                   total_files, result, config_vars, calls, logged, start, prev>>

SpecPaths == InitPaths /\ [][WritePath]_vars

(***************************************************************************)
(* config_manager.py: the setters of s3_config.json                        *)
(***************************************************************************)
\* str.rstrip('/')
RECURSIVE RStripSlash(_)
RStripSlash(s) ==
    IF s # <<>> /\ s[Len(s)] = "/" THEN RStripSlash(Parent(s)) ELSE s

\* str.lower() on the words of the model.
lower(word) ==
    CASE word = "Enabled" -> "enabled"
      [] word = "OFF" -> "off"
      [] OTHER -> word

\* config_manager's load_s3_config: the object in the file, and {} when there
\* is no file or when reading it raises anything.
config_manager_load_s3_config(file) ==
    IF file.state = "ok" THEN file.json ELSE Unset

\* save_s3_config
save_s3_config(config) == [state |-> "ok", json |-> config]

set_s3_bucket(config, bucket_name) == Put(config, "bucket", bucket_name)

set_s3_region(config, region) == Put(config, "region", region)

\* Faulty variant of set_s3_prefix: the trailing slashes are kept.
set_s3_prefix_nostrip(config, pfx) ==
    Put(config, "prefix", IF pfx # <<>> THEN pfx \o <<"/">> ELSE <<>>)

set_s3_prefix(config, pfx) ==
    Put(config, "prefix", IF pfx # <<>> THEN RStripSlash(pfx) \o <<"/">> ELSE <<>>)

set_s3_sync(config, enabled) ==
    LET enabled_bool == lower(enabled) \in {"true", "enabled", "yes", "1", "on"}
    IN  Put(config, "sync_enabled", enabled_bool)

\* The arguments the setters are given in the model.
GivenBuckets == {"", "my-bucket"}

GivenRegions == {"eu-west-1"}

GivenPrefixes == {<<>>, <<"mirror">>, <<"mirror", "/", "/">>, DefaultPrefix}

GivenEnabled == {"enabled", "Enabled", "OFF"}

(***************************************************************************)
(* update_databases.py: cvd update, then s3_sync.py as a child process     *)
(***************************************************************************)
\* dict.get(key, default)
dict_get(d, key, default) == IF key \in DOMAIN d THEN d[key] ELSE default

\* s3_sync_databases returns False before it has a bucket.
NoTarget == [bucket |-> None, region |-> None]

\* Faulty variant of sync_target: --s3-region is ignored.
sync_target_noregion(s3_bucket, s3_region, file) ==
    IF Truthy(s3_bucket)
    THEN [bucket |-> s3_bucket, region |-> "us-east-1"]
    ELSE IF file.state # "ok" THEN NoTarget
    ELSE IF ~dict_get(file.json, "sync_enabled", FALSE) THEN NoTarget
    ELSE IF ~Truthy(dict_get(file.json, "bucket", None)) THEN NoTarget
    ELSE [bucket |-> file.json["bucket"],
          region |-> dict_get(file.json, "region", "us-east-1")]

\* s3_sync_databases: bucket_name and region, from the command line or from
\* s3_config.json.
sync_target(s3_bucket, s3_region, file) ==
    IF Truthy(s3_bucket)
    THEN [bucket |-> s3_bucket,
          region |-> IF Truthy(s3_region) THEN s3_region ELSE "us-east-1"]
    ELSE IF file.state = "absent" THEN NoTarget
    ELSE IF file.state = "invalid" THEN NoTarget
    ELSE IF ~dict_get(file.json, "sync_enabled", FALSE) THEN NoTarget
    ELSE IF ~Truthy(dict_get(file.json, "bucket", None)) THEN NoTarget
    ELSE [bucket |-> file.json["bucket"],
          region |-> dict_get(file.json, "region", "us-east-1")]

\* s3_sync_databases lets the exception of open through when the file exists
\* and cannot be opened: only JSONDecodeError and FileNotFoundError are caught.
sync_target_raises(s3_bucket, file) ==
    ~Truthy(s3_bucket) /\ file.state = "unreadable"

\* Faulty variant of starts_sync: the exit code of cvd update is not read.
starts_sync_always(returncode, s3_sync) == s3_sync

\* update_databases: s3_sync_databases is called.
starts_sync(returncode, s3_sync) == returncode = 0 /\ s3_sync

\* The command lines main of update_databases.py accepts for an update:
\* --s3-bucket-name and --s3-region require --s3-sync.
UpdateCommandLines ==
    {c \in [s3_sync : BOOLEAN, s3_bucket : {None, "", "cli-bucket"},
            s3_region : {None, "", "ap-south-1"}, dry_run : BOOLEAN] :
        (Truthy(c.s3_bucket) \/ Truthy(c.s3_region)) => c.s3_sync}

\* The objects in s3_config.json in this part: each key missing or written
\* by its setter.
StoredObjects ==
    {b @@ r @@ x @@ e :
        b \in {Unset} \cup {set_s3_bucket(Unset, v) : v \in {"my-bucket"}},
        r \in {Unset} \cup {set_s3_region(Unset, v) : v \in GivenRegions},
        x \in {Unset} \cup {set_s3_prefix(Unset, v) : v \in {<<"mirror">>, DefaultPrefix}},
        e \in {Unset} \cup {set_s3_sync(Unset, v) : v \in {"enabled", "OFF"}}}

\* Either a process of update_databases.py at the start of update_databases,
\* s3_sync.py not started (pc = "wait"), or a process of s3_sync.py --upload
\* run directly.  environ is the environment of the process of s3_sync.py,
\* and before there is one, of the process that will launch it.
InitUpdate ==
    /\ prefix \in Prefixes
    /\ db_dir \in DbDirs
    /\ dirs = Ancestors(db_dir)
    /\ fs \in [LocalFiles(db_dir) -> {MaxTime}]
    /\ remote \in {Unset} \cup [Range(KeyOrder(prefix)) -> {MaxTime}]
    /\ \/ /\ pc = "wait"
          /\ args = NoArgs
          /\ \E c \in UpdateCommandLines :
                ud = [NoUpdate EXCEPT !.pc = "start", !.s3_sync = c.s3_sync,
                          !.s3_bucket = c.s3_bucket, !.s3_region = c.s3_region,
                          !.dry_run = c.dry_run]
       \/ /\ pc = "main"
          /\ args \in [action : {"none", "upload"}, force : {FALSE},
                       dry_run : BOOLEAN]
          /\ ud = NoUpdate
    /\ todo = <<>>
    /\ success_count = 0
    /\ total_files = 0
    /\ result = "none"
    /\ environ \in {Unset, "S3_BUCKET_NAME" :> "env-bucket"}
    /\ config_file \in
          {[state |-> st, json |-> Unset] : st \in {"absent", "invalid", "unreadable"}}
              \cup {[state |-> "ok", json |-> j] : j \in StoredObjects}
    /\ s3_config = Unset
    /\ setters = NoSetters
    /\ sched = NewScheduler
    /\ calls = {}
    /\ logged = {}
    /\ start = Snapshot
    /\ log = {}
    /\ prev = NoRun

\* update_databases from run_cvd_command to the call of s3_sync_databases, or
\* to its return when there is no such call.
RunCvdUpdate(returncode) ==
    /\ ud.pc = "start"
    /\ ud' = IF starts_sync(returncode, ud.s3_sync)
             THEN [ud EXCEPT !.returncode = returncode, !.pc = "sync"]
             ELSE [ud EXCEPT !.returncode = returncode, !.pc = "returned",
                             !.returned = Bool(returncode = 0)]
    /\ UNCHANGED <<fs, dirs, remote, prefix, db_dir, pc, args, todo,
                   success_count, total_files, result, environ, config_file,
                   s3_config, setters, sched, calls, logged, start, log, prev>>

\* s3_sync_databases up to subprocess.run: False without a bucket to use or
\* when the child cannot be started (the script is missing, or run raises),
\* else s3_sync.py --upload starts with the bucket and the region in its
\* environment.
SyncDatabases(started) ==
    /\ ud.pc = "sync"
    /\ LET target == sync_target(ud.s3_bucket, ud.s3_region, config_file) IN
       IF sync_target_raises(ud.s3_bucket, config_file)
       THEN /\ ud' = [ud EXCEPT !.pc = "crashed", !.returned = "raised"]
            /\ UNCHANGED <<pc, args, environ>>
       ELSE IF target = NoTarget \/ ~started
       THEN /\ ud' = [ud EXCEPT !.pc = "returned", !.returned = "False"]
            /\ UNCHANGED <<pc, args, environ>>
       ELSE /\ ud' = [ud EXCEPT !.pc = "child", !.launched = TRUE]
            /\ pc' = "main"
            /\ args' = [action |-> "upload", force |-> FALSE,
                        dry_run |-> ud.dry_run]
            /\ environ' = ("S3_BUCKET_NAME" :> target.bucket)
                              @@ ("S3_REGION" :> target.region) @@ environ
    /\ UNCHANGED <<fs, dirs, remote, prefix, db_dir, todo, success_count,
                   total_files, result, config_file, s3_config, setters, sched,
                   calls, logged, start, log, prev>>

\* The child has exited: s3_sync_databases returns True when its exit code
\* is 0 and False on CalledProcessError, and update_databases returns.
SyncExit ==
    /\ ud.pc = "child"
    /\ pc \in {"done", "exit", "crashed"}
    /\ LET s3_success == exit_code = 0 IN
       ud' = [ud EXCEPT !.pc = "returned",
                 !.returned = IF ~s3_success THEN "False"
                              ELSE Bool(ud.returncode = 0)]
    /\ UNCHANGED <<fs, dirs, remote, prefix, db_dir, pc, args, todo,
                   success_count, total_files, result, environ, config_file,
                   s3_config, setters, sched, calls, logged, start, log, prev>>

\* The process of s3_sync.py --upload: main, then one run of upload_to_s3.
NextUpdate ==
    \/ \E returncode \in {0, 1} : RunCvdUpdate(returncode)
    \/ \E started \in BOOLEAN : SyncDatabases(started)
    \/ SyncExit
    \/ \E client_created \in BOOLEAN : MainConfigure(client_created)
    \/ MainDispatch
    \/ \E dry_run \in BOOLEAN : pc = "idle" /\ StartUpload(FALSE, dry_run)
    \/ UploadStep
    \/ UploadReturn

SpecUpdate == InitUpdate /\ [][NextUpdate]_vars

(***************************************************************************)
(* config_manager.py set-s3-..., then a run of s3_sync.py                  *)
(***************************************************************************)
\* A file written earlier, without a region.
OldObject ==
    ("bucket" :> "old-bucket") @@ ("prefix" :> <<"old", "/">>)
        @@ ("sync_enabled" :> TRUE)

\* Before the first command of config_manager.py (pc = "config"): no
\* s3_config.json, one that is not JSON, or one written earlier.
InitConfig ==
    /\ prefix \in Prefixes
    /\ db_dir \in DbDirs
    /\ dirs = Ancestors(db_dir)
    /\ fs \in [LocalFiles(db_dir) -> {MaxTime}]
    /\ remote \in [Range(KeyOrder(prefix)) -> {MaxTime}]
    /\ pc = "config"
    /\ args = NoArgs
    /\ todo = <<>>
    /\ success_count = 0
    /\ total_files = 0
    /\ result = "none"
    /\ environ \in {Unset, "S3_BUCKET_NAME" :> "env-bucket"}
    /\ config_file \in {[state |-> "absent", json |-> Unset],
                        [state |-> "invalid", json |-> Unset],
                        [state |-> "ok", json |-> OldObject]}
    /\ s3_config = Unset
    /\ ud = NoUpdate
    /\ setters = [first |-> config_file, last |-> Unset]
    /\ sched = NewScheduler
    /\ calls = {}
    /\ logged = {}
    /\ start = Snapshot
    /\ log = {}
    /\ prev = NoRun

\* What a command of config_manager.py leaves alone.
setter_frame ==
    <<fs, dirs, remote, prefix, db_dir, pc, args, todo, success_count,
      total_files, result, environ, s3_config, ud, sched, calls, logged, start,
      log, prev>>

\* config_manager.py set-s3-bucket <bucket>
SetS3Bucket(bucket_name) ==
    /\ pc = "config"
    /\ config_file' = save_s3_config(
            set_s3_bucket(config_manager_load_s3_config(config_file), bucket_name))
    /\ setters' = [setters EXCEPT !.last = Put(@, "bucket", bucket_name)]
    /\ UNCHANGED setter_frame

\* config_manager.py set-s3-region <region>
SetS3Region(region) ==
    /\ pc = "config"
    /\ config_file' = save_s3_config(
            set_s3_region(config_manager_load_s3_config(config_file), region))
    /\ setters' = [setters EXCEPT !.last = Put(@, "region", region)]
    /\ UNCHANGED setter_frame

\* config_manager.py set-s3-prefix <prefix>
SetS3Prefix(pfx) ==
    /\ pc = "config"
    /\ config_file' = save_s3_config(
            set_s3_prefix(config_manager_load_s3_config(config_file), pfx))
    /\ setters' = [setters EXCEPT !.last = Put(@, "prefix", pfx)]
    /\ UNCHANGED setter_frame

\* config_manager.py set-s3-sync <enabled>
SetS3Sync(enabled) ==
    /\ pc = "config"
    /\ config_file' = save_s3_config(
            set_s3_sync(config_manager_load_s3_config(config_file), enabled))
    /\ setters' = [setters EXCEPT !.last = Put(@, "sync_enabled", enabled)]
    /\ UNCHANGED setter_frame

\* s3_sync.py is started with a command line, for one run.
RunS3Sync(command_line) ==
    /\ pc = "config"
    /\ pc' = "main"
    /\ args' = command_line
    /\ UNCHANGED <<fs, dirs, remote, prefix, db_dir, todo, success_count,
                   total_files, result, config_vars, calls, logged, start, log,
                   prev>>

NextConfig ==
    \/ \E bucket_name \in GivenBuckets : SetS3Bucket(bucket_name)
    \/ \E region \in GivenRegions : SetS3Region(region)
    \/ \E pfx \in GivenPrefixes : SetS3Prefix(pfx)
    \/ \E enabled \in GivenEnabled : SetS3Sync(enabled)
    \/ \E command_line \in CommandLines : RunS3Sync(command_line)
    \/ \E client_created \in BOOLEAN : MainConfigure(client_created)
    \/ \E h \in HeadBucketResponses, l \in ListObjectsResponses : TestConnection(h, l)
    \/ MainDispatch
    \/ \E force, dry_run \in BOOLEAN : pc = "idle" /\ StartUpload(force, dry_run)
    \/ UploadStep
    \/ UploadReturn
    \/ \E force, dry_run \in BOOLEAN : pc = "idle" /\ StartDownload(force, dry_run)
    \/ DownloadStep
    \/ DownloadReturn

SpecConfig == InitConfig /\ [][NextConfig]_vars

(***************************************************************************)
(* schedule_updates.py: DatabaseScheduler and its loop threads             *)
(***************************************************************************)
\* A scheduler just constructed; s3_sync.py is not running.
InitSched ==
    /\ prefix = DefaultPrefix
    /\ db_dir = DefaultDbDir
    /\ dirs = Ancestors(db_dir)
    /\ fs = [f \in LocalFiles(db_dir) |-> MaxTime]
    /\ remote = [k \in Range(KeyOrder(prefix)) |-> MaxTime]
    /\ pc = "wait"
    /\ args = NoArgs
    /\ todo = <<>>
    /\ success_count = 0
    /\ total_files = 0
    /\ result = "none"
    /\ environ = Unset
    /\ config_file = [state |-> "absent", json |-> Unset]
    /\ s3_config = Unset
    /\ ud = NoUpdate
    /\ setters = NoSetters
    /\ sched = NewScheduler
    /\ calls = {}
    /\ logged = {}
    /\ start = Snapshot
    /\ log = {}
    /\ prev = NoRun

\* What the scheduler and its threads leave alone.
sched_frame ==
    <<fs, dirs, remote, prefix, db_dir, pc, args, todo, success_count,
      total_files, result, environ, config_file, s3_config, ud, setters, calls,
      logged, start, log, prev>>

\* The threads created so far.
Created == {i \in 1..MaxThreads : sched.threads[i] # "none"}

\* DatabaseScheduler.start
Start ==
    /\ IF sched.running
       THEN sched' = [sched EXCEPT !.called = "start ignored"]
       ELSE /\ Cardinality(Created) < MaxThreads
            /\ LET i == Cardinality(Created) + 1 IN
               sched' = [sched EXCEPT !.running = TRUE, !.thread = i,
                                      !.threads[i] = "test",
                                      !.called = "start"]
    /\ UNCHANGED sched_frame

\* DatabaseScheduler.stop.  join(timeout=5) returns after five seconds
\* whether or not the thread has ended: the thread goes on by its own steps.
Stop ==
    /\ IF ~sched.running
       THEN sched' = [sched EXCEPT !.called = "stop ignored"]
       ELSE sched' = [sched EXCEPT !.running = FALSE, !.called = "stop"]
    /\ UNCHANGED sched_frame

\* run_scheduler, thread i reads self.running in `while self.running`:
\* into the body of the loop, or out of the loop and to its end.
LoopTest(i) ==
    /\ sched.threads[i] = "test"
    /\ sched' = [sched EXCEPT !.threads[i] = IF sched.running THEN "call"
                                             ELSE "dead"]
    /\ UNCHANGED sched_frame

\* Thread i calls self.update_databases(): subprocess.run starts.
BeginUpdate(i) ==
    /\ sched.threads[i] = "call"
    /\ sched' = [sched EXCEPT !.threads[i] = "update"]
    /\ UNCHANGED sched_frame

\* update_databases returns in thread i: update_databases.py has exited
\* with 0 ("ok") or not ("failed"), or subprocess.run has raised and the
\* exception was caught and logged ("raised").  The thread then waits.
EndUpdate(i, outcome) ==
    /\ sched.threads[i] = "update"
    /\ sched' = [sched EXCEPT !.threads[i] = "sleep", !.outcome[i] = outcome]
    /\ UNCHANGED sched_frame

\* The wait of thread i ends, the interval over or self.running false, and
\* the thread is back at the test of the loop.
EndSleep(i) ==
    /\ sched.threads[i] = "sleep"
    /\ sched' = [sched EXCEPT !.threads[i] = "test"]
    /\ UNCHANGED sched_frame

\* A step of run_scheduler in thread i.
ThreadStep(i) ==
    \/ LoopTest(i)
    \/ BeginUpdate(i)
    \/ \E outcome \in {"ok", "failed", "raised"} : EndUpdate(i, outcome)
    \/ EndSleep(i)

NextSched ==
    \/ Start
    \/ Stop
    \/ \E i \in 1..MaxThreads : LoopTest(i)
    \/ \E i \in 1..MaxThreads : BeginUpdate(i)
    \/ \E i \in 1..MaxThreads, outcome \in {"ok", "failed", "raised"} :
            EndUpdate(i, outcome)
    \/ \E i \in 1..MaxThreads : EndSleep(i)

SpecSched == InitSched /\ [][NextSched]_vars

\* Every thread that can take a step eventually takes one: the interpreter
\* schedules it, time.sleep returns and the update it waits for ends.
SpecSchedFair == SpecSched /\ \A i \in 1..MaxThreads : WF_vars(ThreadStep(i))

(***************************************************************************)
(* Vocabulary of the properties                                            *)
(***************************************************************************)
Done == pc = "done"

Uploading == args.action = "upload"

Downloading == args.action = "download"

\* The current run repeats a command: prev summarises the run before it.
PrevRan == prev.action # "none"

\* The records of the items the run transferred or, in dry-run, reported.
Transferred == {r \in log : r.did}

TransferredKeys == {r.key : r \in Transferred}

TransferredFiles == {r.file : r \in Transferred}

\* The upload candidates and the remote listing the run started from.
Candidates == Range(get_local_files(start.fs, start.dirs, db_dir))

Listing == Range(list_objects_v2(start.remote, prefix))

\* The process has ended: main returned, exited or was ended by an exception.
Finished == pc \in {"done", "exit", "crashed"}

\* The remote calls the store answered with an error (404 of head_object is
\* the answer "no such object", not an error).
FailedCalls ==
    {c \in calls : /\ c.response # "ok"
                   /\ ~(c.api = "head_object" /\ c.response = "404")}

Errors == {e \in logged : e.level = "error"}

\* The keys the loop of the run has dealt with: decided, or logged as failed.
ProcessedKeys == {r.key : r \in log} \cup {e.key : e \in Errors}

(***************************************************************************)
(* C1: in a download run with force=false, every object of the listing     *)
(* whose local file does not exist when the run starts is transferred (or  *)
(* reported, in dry-run).  The code leaves should_download at force        *)
(* (False) when the local file is absent, so this fails.                   *)
(***************************************************************************)
C1_RemoteOnlyIsDownloaded ==
    (Done /\ Downloading /\ ~args.force) =>
        \A o \in Listing :
            local_file_of(prefix, db_dir, o.Key) \notin DOMAIN start.fs
                => o.Key \in TransferredKeys

(***************************************************************************)
(* C2: with force=false an upload run neither uploads nor reports a file   *)
(* whose remote object exists with LastModified strictly greater than the  *)
(* file's mtime; the object keeps its timestamp.                           *)
(***************************************************************************)
C2_NeverUploadsOverNewerRemote ==
    \A r \in log :
        (Uploading /\ ~args.force /\ r.found /\ r.s3_modified > r.local_modified)
            => /\ ~r.did
               /\ r.key \in DOMAIN remote
               /\ remote[r.key] = r.s3_modified

C2_Witness ==
    /\ Done /\ Uploading /\ ~args.force /\ ~args.dry_run
    /\ \E r \in log : r.found /\ r.s3_modified > r.local_modified
    /\ \E r \in log : r.did

(***************************************************************************)
(* C3: with force=false a step of a download run that meets an existing    *)
(* local file whose mtime is strictly greater than the object's            *)
(* LastModified leaves the local files as they are and records the object  *)
(* as not transferred.                                                     *)
(***************************************************************************)
C3_NeverOverwritesNewerLocal ==
    [][ (/\ pc = "download" /\ todo # <<>> /\ ~args.force
         /\ LET f == local_file_of(prefix, db_dir, Head(todo).Key)
            IN  f \in DOMAIN fs /\ fs[f] > Head(todo).LastModified)
        => (/\ fs' = fs
            /\ \A r \in log' \ log : ~r.did) ]_vars

C3_Witness ==
    /\ Done /\ Downloading /\ ~args.force /\ ~args.dry_run
    /\ \E r \in log : r.local /\ r.local_modified > r.s3_modified /\ ~r.did
    /\ \E r \in log : r.did

(***************************************************************************)
(* C4: in an upload run with force=false every candidate file whose key is *)
(* absent from the bucket (head_object answers 404) is uploaded (reported, *)
(* in dry-run) and counted as a success, not as an error.                  *)
(***************************************************************************)
C4_MissingRemoteIsUploaded ==
    (Done /\ Uploading /\ ~args.force) =>
        /\ \A f \in Candidates :
              s3_key_of(prefix, f) \notin DOMAIN start.remote
                  => /\ f \in TransferredFiles
                     /\ ~args.dry_run => s3_key_of(prefix, f) \in DOMAIN remote
        /\ success_count = Cardinality(Transferred)

C4_Witness ==
    /\ Done /\ Uploading /\ ~args.force /\ ~args.dry_run
    /\ \E r \in log : ~r.found /\ r.did /\ r.key \in DOMAIN remote

(***************************************************************************)
(* C5: with force=false an item present on both sides with different       *)
(* timestamps is transferred by an upload run iff the local mtime is       *)
(* greater, and by a download run iff the remote LastModified is greater;  *)
(* the two conditions exclude each other, so exactly one direction         *)
(* transfers it.                                                           *)
(***************************************************************************)
C5_NewerSideWins ==
    \A r \in log :
        (~args.force /\ r.local /\ r.found /\ r.local_modified # r.s3_modified)
            => /\ Uploading => (r.did <=> r.local_modified > r.s3_modified)
               /\ Downloading => (r.did <=> r.s3_modified > r.local_modified)

C5_Witness ==
    /\ Done /\ Downloading /\ ~args.force
    /\ \E r \in log : r.local /\ r.s3_modified > r.local_modified /\ r.did
    /\ \E r \in log : r.local /\ r.s3_modified < r.local_modified /\ ~r.did

(***************************************************************************)
(* C6: with force=false an item present on both sides with equal           *)
(* timestamps is transferred by neither an upload nor a download run.      *)
(***************************************************************************)
C6_TiesAreSkipped ==
    \A r \in log :
        (~args.force /\ r.local /\ r.found /\ r.local_modified = r.s3_modified)
            => ~r.did

C6_Witness ==
    /\ Done /\ Uploading /\ ~args.force
    /\ \E r \in log : r.found /\ r.local_modified = r.s3_modified

(***************************************************************************)
(* C7: with force=true an upload run transfers every candidate file and a  *)
(* download run transfers every object of the listing, whatever the        *)
(* timestamps and whether or not the counterpart exists.                   *)
(***************************************************************************)
C7_ForceTransfersAll ==
    (Done /\ args.force) =>
        /\ Uploading =>
              /\ TransferredFiles = Candidates
              /\ ~args.dry_run =>
                    \A f \in Candidates : s3_key_of(prefix, f) \in DOMAIN remote
        /\ Downloading =>
              /\ TransferredKeys = {o.Key : o \in Listing}
              /\ ~args.dry_run =>
                    \A o \in Listing : local_file_of(prefix, db_dir, o.Key) \in DOMAIN fs

C7_Witness ==
    /\ Done /\ Downloading /\ args.force /\ ~args.dry_run
    /\ \E r \in log : ~r.local /\ r.did
    /\ \E r \in log : r.local /\ r.local_modified > r.s3_modified /\ r.did

(***************************************************************************)
(* C8: when a real run with force=false gave every destination a timestamp *)
(* not smaller than its source's, the same command repeated right after it *)
(* (with or without --dry-run) transfers and reports nothing and leaves    *)
(* the local files and the bucket as they are.                             *)
(***************************************************************************)
C8_Idempotent ==
    (PrevRan /\ ~prev.force /\ ~prev.dry_run /\ prev.consistent)
        => /\ Transferred = {}
           /\ fs = start.fs
           /\ remote = start.remote

C8_Witness ==
    /\ Done /\ PrevRan /\ ~prev.force /\ ~prev.dry_run /\ prev.consistent
    /\ Cardinality(prev.keys) > 1
    /\ Cardinality(log) > 1

(***************************************************************************)
(* C9: when the same command is run as a dry-run and as a real run from    *)
(* the same local files and the same bucket, the keys the dry-run reports  *)
(* are the keys the real run transfers.  A real download decides each      *)
(* object against the local files as the earlier downloads of the run left *)
(* them, so two keys of the listing that name the same local file break    *)
(* it.                                                                     *)
(***************************************************************************)
C9_DryRunEqualsRealRun ==
    (Done /\ PrevRan /\ prev.dry_run # args.dry_run /\ prev.unchanged)
        => TransferredKeys = prev.keys

(***************************************************************************)
(* C10: a dry-run changes neither the bucket nor the local files nor the   *)
(* local directories.  download_from_s3 creates the database directory     *)
(* before it looks at dry_run, so this fails.                              *)
(***************************************************************************)
C10_DryRunChangesNothing ==
    args.dry_run =>
        /\ remote = start.remote
        /\ fs = start.fs
        /\ dirs = start.dirs

(***************************************************************************)
(* C11: in an upload run, when the remote call for a file fails, the       *)
(* failure is caught and logged, every candidate file is still processed   *)
(* (decided, or logged as failed), and the success count counts only the   *)
(* files transferred or reported.  A failure of head_object is handled so; *)
(* a failure of upload_file raises S3UploadFailedError, which the handler  *)
(* (except ClientError) does not catch, so this fails.                     *)
(***************************************************************************)
C11_UploadFailureIsContained ==
    (Uploading /\ Finished) =>
        /\ \A c \in FailedCalls : \E e \in Errors : e.api = c.api
        /\ result # "raised"
        /\ \A f \in Candidates : s3_key_of(prefix, f) \in ProcessedKeys
        /\ success_count = Cardinality(Transferred)

(***************************************************************************)
(* C12: in a download run, when the transfer of an object fails, the       *)
(* failure is logged and every object of the listing is still processed.   *)
(* The only handler of download_from_s3 is around the whole function and   *)
(* returns False, so the objects after the failed one are never visited.   *)
(***************************************************************************)
C12_DownloadFailureIsContained ==
    (Downloading /\ Finished /\ Call("download_file", "AccessDenied") \in calls) =>
        /\ \E e \in Errors : e.api = "download_file"
        /\ \A o \in Listing : o.Key \in ProcessedKeys

(***************************************************************************)
(* C13: with valid configuration the exit code is 0 when no remote call of *)
(* the run failed (files skipped by the timestamp rule are not failures)   *)
(* and 1 when one failed.  upload_to_s3 returns success_count ==           *)
(* total_files and does not count a skipped file, so an upload run that    *)
(* skips a file exits with 1.                                              *)
(***************************************************************************)
C13_ExitCodeReportsFailures ==
    Finished =>
        /\ FailedCalls = {} => exit_code = 0
        /\ FailedCalls # {} => exit_code = 1

(***************************************************************************)
(* C14: when no usable bucket is configured (S3_BUCKET_NAME unset or empty *)
(* and the config file absent, not JSON, unreadable, or without a          *)
(* non-empty bucket) or when the configuration main loads has sync_enabled *)
(* false or missing, the process ends with exit code 1 as soon as main has *)
(* looked at the configuration, for every command line, and has made no    *)
(* remote call.  (With S3_BUCKET_NAME set, load_s3_config does not read    *)
(* the file and sync_enabled is True.)                                     *)
(***************************************************************************)
EnvBucket == environ_get(environ, "S3_BUCKET_NAME")

EnvRegion == environ_get(environ, "S3_REGION")

NoBucketConfigured ==
    /\ ~Truthy(EnvBucket)
    /\ \/ config_file.state # "ok"
       \/ "bucket" \notin DOMAIN config_file.json
       \/ ~Truthy(config_file.json["bucket"])

SyncDisabled ==
    /\ ~Truthy(EnvBucket)
    /\ \/ config_file.state # "ok"
       \/ "sync_enabled" \notin DOMAIN config_file.json
       \/ ~config_file.json["sync_enabled"]

C14_UnconfiguredExitsBeforeAnyCall ==
    (pc # "main" /\ (NoBucketConfigured \/ SyncDisabled)) =>
        /\ pc \in {"exit", "crashed"}
        /\ exit_code = 1
        /\ calls = {}

C14_Witness ==
    /\ pc = "exit"
    /\ args.action = "download"
    /\ SyncDisabled
    /\ ~NoBucketConfigured
    /\ calls = {}

(***************************************************************************)
(* C15: in the configuration main loads, the bucket is the value of        *)
(* S3_BUCKET_NAME whenever that variable is set (to a non-empty value) and *)
(* the region is the value of S3_REGION whenever that variable is set,     *)
(* whatever the file holds and whether or not the other variable is set.   *)
(* load_s3_config reads S3_REGION only when S3_BUCKET_NAME is set, so      *)
(* S3_REGION alone is ignored.                                             *)
(***************************************************************************)
C15_EnvironmentOverrides ==
    (pc # "main" /\ ~load_s3_config_raises(environ, config_file)) =>
        /\ Truthy(EnvBucket) =>
              "bucket" \in DOMAIN s3_config /\ s3_config["bucket"] = EnvBucket
        /\ Truthy(EnvRegion) =>
              "region" \in DOMAIN s3_config /\ s3_config["region"] = EnvRegion

(***************************************************************************)
(* C16: a connection test in which head_bucket succeeds and                *)
(* list_objects_v2 answers AccessDenied ends with exit code 0 and a        *)
(* warning; a connection test ends with exit code 1 exactly when           *)
(* head_bucket fails or list_objects_v2 fails with another error.          *)
(***************************************************************************)
C16_ListDeniedIsNotAFailure ==
    (pc = "done" /\ args.action = "test") =>
        LET head_ok == Call("head_bucket", "ok") \in calls
            denied == Call("list_objects_v2", "AccessDenied") \in calls
            list_failed == \E c \in calls :
                              /\ c.api = "list_objects_v2"
                              /\ c.response \notin {"ok", "AccessDenied"}
        IN  /\ (head_ok /\ denied) =>
                  /\ exit_code = 0
                  /\ \E w \in logged : w.level = "warning"
                  /\ Errors = {}
            /\ exit_code = 1 <=> (~head_ok \/ list_failed)

C16_Witness ==
    /\ pc = "done"
    /\ args.action = "test"
    /\ Call("head_bucket", "ok") \in calls
    /\ Call("list_objects_v2", "AccessDenied") \in calls
    /\ exit_code = 0

(***************************************************************************)
(* C17: for every database directory, upload gives a database file the key *)
(* prefix + name, which is not under metadata/, and gives state.json and   *)
(* config.json of the parent directory the key prefix + "metadata/" +      *)
(* name.  upload_to_s3 chooses metadata/ by the name of the file's parent  *)
(* directory (".cvdupdate"), so this holds for the default directory only. *)
(***************************************************************************)
C17_AuxiliaryFilesUnderMetadata ==
    \A r \in log :
        IF Parent(r.file) = db_dir
        THEN /\ r.key = prefix \o <<Name(r.file)>>
             /\ ~StartsWith(DropFirst(r.key, Len(prefix)), MetadataPrefix)
        ELSE r.key = prefix \o MetadataPrefix \o <<Name(r.file)>>

(***************************************************************************)
(* C18: for every candidate file, database directory and prefix, the local *)
(* file download computes for the key upload gives the file is the file    *)
(* itself.                                                                 *)
(***************************************************************************)
C18_KeyMappingRoundTrip ==
    \A r \in log : r.back = r.file

(***************************************************************************)
(* C19: every decision of a run is the decision computed from the local    *)
(* files and the bucket as they were when the run started, whatever other  *)
(* actors change after that.  (A download decision about a file that       *)
(* another transfer of the same run names is left out: see C9.)  upload    *)
(* calls head_object and stat for each file when it comes to it, and       *)
(* download calls stat so, so a change made in between alters the          *)
(* decision.                                                               *)
(***************************************************************************)
C19_DecisionsUseTheSnapshot ==
    \A r \in log :
        LET found == r.key \in DOMAIN start.remote
            exists == r.file \in DOMAIN start.fs
            s3_modified == IF found THEN start.remote[r.key] ELSE 0
            local_modified == IF exists THEN start.fs[r.file] ELSE 0
        IN  /\ Uploading =>
                  r.did = should_upload(args.force, found, s3_modified, local_modified)
            /\ (Downloading /\ r.file \notin {x.file : x \in Transferred \ {r}}) =>
                  r.did = should_download(args.force, exists, s3_modified, local_modified)

(***************************************************************************)
(* C20: a dry-run logs no failure and ends with success, whatever the      *)
(* store answers.  A dry-run still calls head_object and list_objects_v2,  *)
(* whose failures are logged and make the run return False; a dry-run      *)
(* upload that skips a file returns False as well.                         *)
(***************************************************************************)
C20_DryRunCannotFail ==
    (Finished /\ args.dry_run) =>
        /\ Errors = {}
        /\ result = "True"

(***************************************************************************)
(* C21: when the database directory does not exist, the upload candidate   *)
(* set is empty even if state.json or config.json exist in its parent, the *)
(* missing directory is signalled by a warning, and the upload run makes   *)
(* no call to the store, transfers nothing and ends at once.               *)
(***************************************************************************)
C21_MissingDirectoryUploadsNothing ==
    (pc \in {"upload", "done"} /\ Uploading /\ db_dir \notin start.dirs) =>
        /\ Candidates = {}
        /\ Logged("warning", "get_local_files", db_dir) \in logged
        /\ pc = "done"
        /\ calls = {}
        /\ log = {}
        /\ remote = start.remote
        /\ fs = start.fs

\* An upload run has ended without the directory, state.json in its parent.
C21_Witness ==
    /\ pc = "done"
    /\ Uploading
    /\ db_dir \notin start.dirs
    /\ state_files(db_dir)[1] \in DOMAIN start.fs
    /\ result = "True"

(***************************************************************************)
(* C22: when update_databases runs with --s3-sync and an explicit          *)
(* --s3-bucket-name, the upload it launches targets exactly that bucket,   *)
(* and the region of --s3-region or us-east-1 without one, whatever        *)
(* s3_config.json contains, and nothing in the file stops the launch.      *)
(***************************************************************************)
\* update_databases.py was given --s3-sync and a bucket name.
ExplicitBucket == ud.s3_sync /\ Truthy(ud.s3_bucket)

\* The process of s3_sync.py has loaded its configuration.
ChildConfigured == ud.launched /\ pc \notin {"wait", "main"}

C22_ExplicitBucketIsTheTarget ==
    /\ (ExplicitBucket /\ ChildConfigured) =>
            /\ Uploading
            /\ s3_config["bucket"] = ud.s3_bucket
            /\ s3_config["region"] =
                   (IF Truthy(ud.s3_region) THEN ud.s3_region ELSE "us-east-1")
    /\ ExplicitBucket =>
            /\ sync_target(ud.s3_bucket, ud.s3_region, config_file) # NoTarget
            /\ ~sync_target_raises(ud.s3_bucket, config_file)
            /\ ud.pc # "crashed"

\* An upload launched for an explicit bucket and region has run to its end
\* although the file has sync_enabled false and another bucket.
C22_Witness ==
    /\ ExplicitBucket
    /\ Truthy(ud.s3_region)
    /\ ChildConfigured
    /\ pc = "done"
    /\ log # {}
    /\ config_file.state = "ok"
    /\ dict_get(config_file.json, "sync_enabled", TRUE) = FALSE
    /\ dict_get(config_file.json, "bucket", None) = "my-bucket"

(***************************************************************************)
(* C23: a run of s3_sync that gets past the checks of main performs        *)
(* exactly one of upload, download and connection test: the one its flag   *)
(* names, and upload without a flag.  An upload makes no call of a         *)
(* download or of the test and changes no local file, a download makes no  *)
(* call of an upload or of the test and leaves the store as it is, and a   *)
(* connection test only calls head_bucket and list_objects_v2, decides     *)
(* about no file and changes neither the store nor the local files.        *)
(***************************************************************************)
Apis == {c.api : c \in calls}

C23_OneActionPerRun ==
    [][/\ (pc = "client" /\ pc' \in {"idle", "done"}) =>
              /\ args.action = "test" <=> pc' = "done"
              /\ pc' = "idle" =>
                    args'.action =
                        (IF args.action = "none" THEN "upload" ELSE args.action)
       /\ (pc' \in {"upload", "download", "done"}) =>
              /\ args'.action \in {"upload", "download", "test"}
              /\ args'.action = "upload" =>
                    /\ Apis' \subseteq {"head_object", "upload_file"}
                    /\ fs' = start'.fs /\ dirs' = start'.dirs
              /\ args'.action = "download" =>
                    /\ Apis' \subseteq {"list_objects_v2", "download_file"}
                    /\ remote' = start'.remote
              /\ args'.action = "test" =>
                    /\ Apis' \subseteq {"head_bucket", "list_objects_v2"}
                    /\ log' = {}
                    /\ fs' = start'.fs /\ dirs' = start'.dirs
                    /\ remote' = start'.remote
       /\ (pc' \in {"upload", "download"}) => args'.action # "test"
      ]_vars

\* A connection test has ended with both calls made, next to local files
\* and a store that hold something.
C23_Witness ==
    /\ pc = "done"
    /\ args.action = "test"
    /\ Apis = {"head_bucket", "list_objects_v2"}
    /\ fs = start.fs /\ DOMAIN fs # {}
    /\ remote = start.remote /\ DOMAIN remote # {}

(***************************************************************************)
(* C24: update_databases calls s3_sync_databases, and so starts the child  *)
(* process, only when cvd update has exited with code 0; it returns True   *)
(* exactly when cvd update exited with 0 and either --s3-sync was not      *)
(* given or the child process was started and exited with code 0.          *)
(***************************************************************************)
C24_SyncOnlyAfterSuccessfulUpdate ==
    /\ (ud.pc \in {"sync", "child"} \/ ud.launched) => ud.returncode = 0
    /\ ud.pc = "returned" =>
          (ud.returned = "True" <=>
              /\ ud.returncode = 0
              /\ ~ud.s3_sync \/ (ud.launched /\ exit_code = 0))
    /\ ud.pc = "crashed" => ud.returned # "True"

\* update_databases has returned True after a child that uploaded.
C24_Witness ==
    /\ ud.pc = "returned"
    /\ ud.returned = "True"
    /\ ud.s3_sync
    /\ ud.launched
    /\ "upload_file" \in Apis

(***************************************************************************)
(* C25: the prefix set-s3-prefix has stored in s3_config.json is the       *)
(* prefix of every key an upload decides about, when s3_sync.py is run     *)
(* directly without S3_BUCKET_NAME in its environment and when             *)
(* update_databases --s3-sync launches it with the bucket of the file.     *)
(* The child always gets S3_BUCKET_NAME, and load_s3_config then returns   *)
(* 'clamav/databases/' without reading the file.                           *)
(***************************************************************************)
\* s3_config.json holds a prefix.
PrefixStored == config_file.state = "ok" /\ "prefix" \in DOMAIN config_file.json

\* s3_sync.py was started by hand, without override in the environment.
DirectRun == ud = NoUpdate /\ ~Truthy(environ_get(environ, "S3_BUCKET_NAME"))

\* s3_sync.py was started by update_databases --s3-sync without a bucket name.
LaunchedFromFile == ud.launched /\ ~Truthy(ud.s3_bucket)

C25_StoredPrefixIsUsed ==
    (PrefixStored /\ Uploading /\ pc \in {"upload", "done"}
                  /\ (DirectRun \/ LaunchedFromFile)) =>
        /\ prefix = config_file.json["prefix"]
        /\ \A r \in log : StartsWith(r.key, config_file.json["prefix"])

(***************************************************************************)
(* C26: starting without s3_config.json, after one or more of the          *)
(* commands set-s3-bucket, set-s3-region, set-s3-prefix and set-s3-sync, a *)
(* run of s3_sync without S3_BUCKET_NAME in its environment never ends     *)
(* with an exception: it finds every key it reads.  The setters write only *)
(* their own key, and main reads the keys with s3_config[...].             *)
(***************************************************************************)
C26_SettersGiveACompleteConfiguration ==
    (/\ setters.first.state = "absent"
     /\ setters.last # Unset
     /\ ~Truthy(environ_get(environ, "S3_BUCKET_NAME"))
     /\ pc \notin {"config", "main"}) =>
        pc # "crashed"

(***************************************************************************)
(* C30: when s3_config.json was readable before the first setter, after    *)
(* any sequence of set_s3_bucket, set_s3_region, set_s3_prefix and         *)
(* set_s3_sync the file holds, for every key a setter was called for, the  *)
(* value the last call for that key gave (the prefix without its trailing  *)
(* slashes and with one '/' added, or empty for the empty prefix; the flag *)
(* for the word given), and every other key as it was before: a setter     *)
(* changes its own key only.                                               *)
(***************************************************************************)
\* stored is given, made to end with exactly one '/', or empty.
Normalised(stored, given) ==
    IF given = <<>> THEN stored = <<>>
    ELSE /\ stored # <<>>
         /\ stored[Len(stored)] = "/"
         /\ Len(stored) = Len(RStripSlash(stored)) + 1
         /\ RStripSlash(stored) = RStripSlash(given)

C30_SettersChangeOnlyTheirKey ==
    setters.first.state = "ok" =>
        LET json == config_file.json
            first == setters.first.json
            last == setters.last
        IN  /\ config_file.state = "ok"
            /\ DOMAIN json = DOMAIN first \cup DOMAIN last
            /\ \A k \in DOMAIN json :
                  IF k \notin DOMAIN last THEN json[k] = first[k]
                  ELSE IF k = "prefix" THEN Normalised(json[k], last[k])
                  ELSE IF k = "sync_enabled"
                       THEN json[k] = (last[k] \in {"enabled", "Enabled"})
                  ELSE json[k] = last[k]

\* Every setter has been called, set-s3-prefix last with 'mirror//', on a
\* file that had no region.
C30_Witness ==
    /\ setters.first.state = "ok"
    /\ "region" \notin DOMAIN setters.first.json
    /\ DOMAIN setters.last = {"bucket", "region", "prefix", "sync_enabled"}
    /\ setters.last["prefix"] = <<"mirror", "/", "/">>
    /\ config_file.json["prefix"] = <<"mirror", "/">>
    /\ config_file.json["bucket"] = setters.last["bucket"]
    /\ pc = "config"

(***************************************************************************)
(* C27: after any sequence of start() and stop() calls, at most one loop   *)
(* thread is alive and able to launch updates.  stop() does not wait for   *)
(* the thread to end, and a start() after it sets running again for the    *)
(* thread stop() was meant to end.                                         *)
(***************************************************************************)
Alive == {i \in 1..MaxThreads : sched.threads[i] \notin {"none", "dead"}}

\* Thread i will launch an update unless stop is called: it is about to, or
\* it is anywhere in the loop with self.running true.
Able(i) == i \in Alive /\ (sched.running \/ sched.threads[i] = "call")

C27_AtMostOneLoopThread == Cardinality({i \in 1..MaxThreads : Able(i)}) <= 1

(***************************************************************************)
(* C28: while running is False after stop(), no thread begins a call of    *)
(* update_databases; after stop(), unless start() is called again, every   *)
(* loop thread eventually ends; and no outcome of an update ends the loop. *)
(* A thread that has read running as True before stop() sets it to False   *)
(* begins its update after stop().                                         *)
(***************************************************************************)
Stopped == ~sched.running /\ sched.called \in {"stop", "stop ignored"}

C28_NoUpdateBeginsAfterStop ==
    [][Stopped =>
          \A i \in 1..MaxThreads :
              sched'.threads[i] = "update" => sched.threads[i] = "update"]_vars

C28_LoopEndsAfterStop == Stopped ~> (Alive = {} \/ sched.running)

C28_FailedUpdateKeepsTheLoop ==
    [][\A i \in 1..MaxThreads :
          sched.threads[i] = "update" => sched'.threads[i] \in {"update", "sleep"}]_vars

C28_StopEndsTheLoop ==
    /\ C28_NoUpdateBeginsAfterStop
    /\ C28_LoopEndsAfterStop
    /\ C28_FailedUpdateKeepsTheLoop

(***************************************************************************)
(* C29: for every key of the listing under the prefix, whatever follows    *)
(* the prefix, download_from_s3 writes a file that is inside the database  *)
(* directory or directly inside its parent directory.  The remainder of    *)
(* the key is joined to the directory as it is: '..' segments, a second    *)
(* 'metadata/' and a leading '/' after 'metadata/' lead elsewhere.         *)
(***************************************************************************)
\* path is in dir or in a directory below it.
Inside(dir, path) == Len(path) > Len(dir) /\ StartsWith(path, dir)

DirectlyInside(dir, path) == path # <<>> /\ Parent(path) = dir

C29_DownloadStaysInTheDatabaseTree ==
    \A r \in log :
        \/ Inside(db_dir, r.written)
        \/ DirectlyInside(Parent(db_dir), r.written)

====
